---- MODULE Spec2Model ----
(***************************************************************************)
(* The procedural audio engine of Master Mind (SoundEngine, src/app.js     *)
(* lines 42-317; the same code is listed again in src/unnamed/part_000).   *)
(*                                                                         *)
(* The engine is a closure over nine private variables.  It talks to two   *)
(* browser services, both modelled here as tables:                         *)
(*   nodes   the Web Audio source nodes that have been started and have    *)
(*           not yet delivered their end (OscillatorNode, BufferSource);   *)
(*           a plucked string's oscillator o and its harmonic oh, which    *)
(*           are started, stopped, pushed and filtered together, share     *)
(*           one entry: in bgOscillators o is the entry's id and oh its    *)
(*           negation.  A node's id is its position in the table, which    *)
(*           is kept in creation order: object identity is opaque to the   *)
(*           engine, so when an entry leaves, the later ones move up in    *)
(*           the table and in both lists alike;                            *)
(*   timers  the live setInterval timers.                                  *)
(* Everything is single-threaded: an action is one whole call of a public  *)
(* method, one firing of an interval callback, or one "ended" event.       *)
(*                                                                         *)
(* Engine functions are written as operators from a state record to a      *)
(* state record, so that nested calls (toggleMute -> stopAll ->            *)
(* stopBgMusic) compose as they do in the code; an action commits the      *)
(* record the method returns.  The record's field exc is TRUE while an     *)
(* exception is propagating.                                               *)
(***************************************************************************)
EXTENDS Integers, Sequences, FiniteSets, TLC

\* ------------------------------------------------------------ bounds
\* Source nodes alive at once (started, end not yet delivered).
MaxNodes == 4
\* Interval timers the browser can hold at once.
MaxTimers == 3
\* The step cursor bgStep is an unbounded counter in the code.
MaxStep == 3
\* Simulated milliseconds a clocked run follows one heartbeat loop.
MaxElapsed == 4800
\* Source nodes alive at once in a clocked run: a lobby session holds twelve
\* strings of 3 s at 250 ms a step, and a step adds a string and its noise.
MaxVoices == 14
\* Steps a clocked run follows one background session: past the lobby
\* sequence's 16 notes.
MaxSeqStep == 17
\* Simulated milliseconds a clocked run follows one background session: the
\* suspense sequence's 8 notes at 1500 ms a step.
MaxSeqElapsed == 12000
\* Earlier voices still alive when a clocked run of the effects makes a call.
MaxBacklog == 1
\* Direct heartbeat() calls a clocked run of the effects counts.
MaxBeats == 2
\* Tenths of a second left on the Color Confusion survival countdown when a
\* run of the games joins it: the countdown starts at 60 s and comes down by
\* a tenth every 100 ms; the run follows its last stretch.
SurvivalFrom == 52
\* Tenths of a second a +3 s bonus may raise the survival countdown to.
MaxTimeLeft == 82

VARIABLES
    ctx,                \* let ctx: "none" | "running" | "suspended"
    muted,              \* let muted
    activeOscillators,  \* let activeOscillators: sequence of node ids
    bgOscillators,      \* let bgOscillators: sequence of node ids
    bgPlaying,          \* let bgPlaying
    currentMusicType,   \* this.currentMusicType: "null" | "lobby" | "suspense"
    heartbeatInterval,  \* let heartbeatInterval: timer id, NoTimer for null
    bgInterval,         \* let bgInterval: timer id, NoTimer for null
    bgStep,             \* let bgStep
    nodes,              \* browser: sequence of [kind, st, at, rem, hz], by creation
    timers,             \* browser: timer id -> [kind, due]
    clocked,            \* harness: TRUE when time is simulated (fake timers)
    hbUnits,            \* harness: heartbeat units played since the loop was armed
    hbElapsed,          \* harness: simulated ms since the loop was armed
    bgElapsed,          \* harness: simulated ms since the session was armed
    game,               \* the page: [currentView, currentGame, currentStage,
                        \*   countdown, timerSeconds, timeLeft]
    ctxMade,            \* harness: AudioContext objects constructed so far
    live,               \* harness: the page still makes calls
    watch,              \* harness: late ended events are noted (see Progress)
    scenario,           \* harness: what the latest calls were (see Progress)
    uncaught            \* harness: the last step's exception reached the browser

vars == <<ctx, muted, activeOscillators, bgOscillators, bgPlaying,
          currentMusicType, heartbeatInterval, bgInterval, bgStep,
          nodes, timers, clocked, hbUnits, hbElapsed, bgElapsed, game,
          ctxMade, live, watch, scenario, uncaught>>

\* The bounds in force: those of a clocked run, or of a run with time
\* abstracted.
NodeCap == IF clocked THEN MaxVoices ELSE MaxNodes
StepCap == IF clocked THEN MaxSeqStep ELSE MaxStep

NodeIds == 1..NodeCap
TimerIds == 1..MaxTimers
\* null in heartbeatInterval / bgInterval
NoTimer == 0

\* The fault injected into one call: NoFault, CtxFault (the AudioContext
\* constructor throws) or k >= 1 (building the call's k-th voice throws).
NoFault == 0
CtxFault == -1
\* The faults that can hit a call that builds up to n voices.
Faults(n) == {CtxFault, NoFault} \cup 1..n

\* ------------------------------------------------------------ helpers
Min(S) == IF S = {} THEN 0 ELSE CHOOSE x \in S : \A y \in S : x <= y

Abs(x) == IF x < 0 THEN -x ELSE x

Without(f, D) == [x \in (DOMAIN f) \ D |-> f[x]]

SeqFilterOut(q, D) == SelectSeq(q, LAMBDA x : x \notin D)

Range(q) == {q[i] : i \in DOMAIN q}

\* The sequence q without its element at position o.
RemoveAt(q, o) == [i \in 1..(Len(q) - 1) |-> IF i < o THEN q[i] ELSE q[i + 1]]

\* A list of node ids after node o left the table: the ids behind o move up.
Renumber(list, o) ==
    [i \in DOMAIN list |->
        IF list[i] > o THEN list[i] - 1
        ELSE IF list[i] < -o THEN list[i] + 1
        ELSE list[i]]

\* The state once node o has delivered its end and is gone.
Forget(s, o) ==
    [s EXCEPT !.nodes = RemoveAt(@, o),
              !.activeOscillators = Renumber(@, o),
              !.bgOscillators = Renumber(@, o)]

\* The closure state as one record.
Cur ==
    [ctx |-> ctx, muted |-> muted, activeOscillators |-> activeOscillators,
     bgOscillators |-> bgOscillators, bgPlaying |-> bgPlaying,
     currentMusicType |-> currentMusicType,
     heartbeatInterval |-> heartbeatInterval, bgInterval |-> bgInterval,
     bgStep |-> bgStep, nodes |-> nodes, timers |-> timers,
     clocked |-> clocked, hbUnits |-> hbUnits, hbElapsed |-> hbElapsed,
     bgElapsed |-> bgElapsed, game |-> game, ctxMade |-> ctxMade,
     exc |-> FALSE, ret |-> "undefined"]

\* How a step moves the observer of the latest calls.  1..4 count the calls
\* made so far of the sequence toggleMute() (to muted), correct(),
\* toggleMute() (to unmuted), correct(); 5: the last two calls were
\* toggleMute() (to muted), toggleMute() (to unmuted); 6: the last call was a
\* stopHeartbeatLoop() that found the loop armed; 7: the last call was a
\* stopBgMusic() that found a session playing; 8: the last call acquired the
\* context, found it suspended and resumed it; 9: the last call was a
\* startBgMusic() made while muted; 10: in a run that notes them (watch), a
\* late ended event (op "late") has been delivered since the last call,
\* which had left the observer at 0;
\* 0: anything else.  Any other callback or event (op "event") leaves the
\* observer alone.
Progress(s, op) ==
    CASE op = "event" -> scenario
      [] op = "late" -> IF watch /\ scenario = 0 THEN 10 ELSE scenario
      [] op = "toggleMute" -> IF s.muted THEN 1
                              ELSE IF scenario = 2 THEN 3
                              ELSE IF scenario = 1 THEN 5 ELSE 0
      [] op = "correct" -> IF scenario = 1 THEN 2 ELSE IF scenario = 3 THEN 4 ELSE 0
      [] op = "stopHeartbeatLoop" -> IF heartbeatInterval # NoTimer THEN 6 ELSE 0
      [] op = "stopBgMusic" -> IF bgPlaying THEN 7 ELSE 0
      [] op = "startBgMusic" /\ muted -> 9
      [] OTHER -> IF ctx = "suspended" /\ s.ctx = "running" THEN 8 ELSE 0

\* The state a call, callback or event leaves behind; op names the call.  An
\* exception still propagating when it returns (s.exc) has left the engine.
Commit(s, op) ==
    /\ ctx' = s.ctx
    /\ muted' = s.muted
    /\ activeOscillators' = s.activeOscillators
    /\ bgOscillators' = s.bgOscillators
    /\ bgPlaying' = s.bgPlaying
    /\ currentMusicType' = s.currentMusicType
    /\ heartbeatInterval' = s.heartbeatInterval
    /\ bgInterval' = s.bgInterval
    /\ bgStep' = s.bgStep
    /\ nodes' = s.nodes
    /\ timers' = s.timers
    /\ clocked' = s.clocked
    /\ hbUnits' = s.hbUnits
    /\ hbElapsed' = s.hbElapsed
    /\ bgElapsed' = s.bgElapsed
    /\ game' = s.game
    /\ ctxMade' = s.ctxMade
    /\ live' = live
    /\ watch' = watch
    /\ scenario' = Progress(s, op)
    /\ uncaught' = s.exc

Throw(s) == [s EXCEPT !.exc = TRUE]
\* catch (e) { }
Catch(s) == [s EXCEPT !.exc = FALSE]

\* ------------------------------------------------------------ browser
\* A duration or period in ms: kept in a clocked run, abstracted to "may end
\* at any moment" (0) otherwise.
Life(s, ms) == IF s.clocked THEN ms ELSE 0

\* A frequency in hundredths of a hertz: kept in a clocked run, not followed
\* (0) otherwise.
Pitch(s, hz) == IF s.clocked THEN hz ELSE 0

NewNodeId(s) == Len(s.nodes) + 1

\* createOscillator / createBufferSource, frequency.setValueAtTime(hz),
\* start(), stop(now + ms)
StartNode(s, kind, ms, hz) ==
    [s EXCEPT !.nodes = Append(@, [kind |-> kind, st |-> "playing", at |-> 0,
                                   rem |-> Life(s, ms), hz |-> Pitch(s, hz)])]

\* The same with a delayed start: start(now + off), stop(now + off + ms).
\* at: ms until the node starts to sound, rem: ms until it stops.
StartNodeAt(s, kind, off, ms, hz) ==
    [s EXCEPT !.nodes = Append(@, [kind |-> kind, st |-> "playing",
                                   at |-> Life(s, off),
                                   rem |-> Life(s, off + ms),
                                   hz |-> Pitch(s, hz)])]

\* o.stop() with no argument: the node stops now; its end event is pending.
StopNode(ns, o) ==
    IF Abs(o) \in DOMAIN ns
    THEN [ns EXCEPT ![Abs(o)] = [@ EXCEPT !.st = "stopped", !.rem = 0]]
    ELSE ns

RECURSIVE StopNodes(_, _, _)
\* list.forEach(o => { try { o.stop(); } catch (e) { } })
StopNodes(ns, list, i) ==
    IF i > Len(list) THEN ns
    ELSE StopNodes(StopNode(ns, list[i]), list, i + 1)

FreeTimers(s) == TimerIds \ DOMAIN s.timers
NewTimerId(s) == Min(FreeTimers(s))

\* setInterval(cb, ms): the new timer has the smallest unused id
SetInterval(s, kind, ms) ==
    [s EXCEPT !.timers = (NewTimerId(s) :> [kind |-> kind, due |-> Life(s, ms)])
                         @@ @]

\* clearInterval(id)
ClearInterval(s, id) == [s EXCEPT !.timers = Without(@, {id})]

\* ------------------------------------------------------------ engine
\* getCtx that constructs a fresh AudioContext on every call
getCtx_AlwaysNew(s, f) ==
    IF f = CtxFault THEN Throw(s)
    ELSE [s EXCEPT !.ctx = "running", !.ctxMade = @ + 1]

\* function getCtx(): if (!ctx) ctx = new AudioContext(); if (ctx.state ===
\* 'suspended') ctx.resume(); return ctx.  A context the browser hands out
\* suspended is resumed by the same call.
getCtx(s, f) ==
    IF s.ctx = "none"
    THEN IF f = CtxFault THEN Throw(s)
         ELSE [s EXCEPT !.ctx = "running", !.ctxMade = @ + 1]
    ELSE IF s.ctx = "suspended" THEN [s EXCEPT !.ctx = "running"] ELSE s

\* One tracked effect voice: start(t + off), stop(t + off + ms),
\* activeOscillators.push(o), o.onended = filter, where t is the clock as
\* the call captured it.  The pitch of an effect voice is not followed.
PlayTracked(s, off, ms) ==
    [StartNodeAt(s, "fx", off, ms, 0)
        EXCEPT !.activeOscillators = Append(@, NewNodeId(s))]

\* osc without its first line, if (muted) return
osc_NoMuteCheck(s, f, ms) ==
    LET c == getCtx(s, f) IN
    IF c.exc \/ f = 1 THEN Catch(c)
    ELSE PlayTracked(c, 0, ms)

\* function osc(type, freq, duration, volume, rampFreq)
osc(s, f, ms) ==
    IF s.muted THEN s
    ELSE LET c == getCtx(s, f) IN
         IF c.exc \/ f = 1 THEN Catch(c)
         ELSE PlayTracked(c, 0, ms)

RECURSIVE Voices(_, _, _, _, _)
\* [..].forEach((f, i) => { ...one voice... }) from element i on; building
\* the f-th voice throws.  offs: each voice's start after the captured
\* clock t, ms: every voice's duration.
Voices(s, offs, ms, i, f) ==
    IF i > Len(offs) THEN s
    ELSE IF f = i THEN Throw(s)
    ELSE Voices(PlayTracked(s, offs[i], ms), offs, ms, i + 1, f)

\* correct(), heartbeat(), fanfare(): if (muted) return; try { getCtx();
\* t = c.currentTime; forEach voice } catch (e) { }.
Effect(s, offs, ms, f) ==
    IF s.muted THEN s
    ELSE LET c == getCtx(s, f) IN
         IF c.exc THEN Catch(c)
         ELSE Catch(Voices(c, offs, ms, 1, f))

\* correct() without its first line, if (muted) return
correct_NoMuteCheck(s, f) ==
    LET c == getCtx(s, f) IN
    IF c.exc THEN Catch(c)
    ELSE Catch(Voices(c, <<0, 80>>, 120, 1, f))

\* correct with both notes started at the captured clock
correct_NoGap(s, f) == Effect(s, <<0, 0>>, 120, f)

\* correct(): 523 Hz at now, 784 Hz 80 ms later, 120 ms each
correct(s, f) == Effect(s, <<0, 80>>, 120, f)

\* fanfare(): four notes 120 ms apart, 200 ms each
fanfare(s, f) == Effect(s, <<0, 120, 240, 360>>, 200, f)

\* heartbeat(): two 60 Hz thumps 150 ms apart, 150 ms each; a clocked run
\* counts the units that get past the mute check
heartbeat(s, f) ==
    IF s.muted THEN s
    ELSE Effect([s EXCEPT !.hbUnits = IF s.clocked THEN @ + 1 ELSE @],
                <<0, 150>>, 150, f)

\* stopHeartbeatLoop that also cuts the effect voices short, as stopAll does
stopHeartbeatLoop_StopsVoices(s) ==
    LET t == IF s.heartbeatInterval # NoTimer
             THEN [ClearInterval(s, s.heartbeatInterval) EXCEPT !.heartbeatInterval = NoTimer]
             ELSE s
    IN [t EXCEPT !.nodes = StopNodes(@, s.activeOscillators, 1),
                 !.activeOscillators = <<>>]

\* stopHeartbeatLoop that drops the handle and forgets clearInterval
stopHeartbeatLoop_KeepsTimer(s) == [s EXCEPT !.heartbeatInterval = NoTimer]

\* stopHeartbeatLoop that arms the loop when it finds it stopped
stopHeartbeatLoop_Toggles(s) ==
    IF s.heartbeatInterval # NoTimer
    THEN [ClearInterval(s, s.heartbeatInterval) EXCEPT !.heartbeatInterval = NoTimer]
    ELSE [SetInterval(s, "hb", 800) EXCEPT !.heartbeatInterval = NewTimerId(s)]

\* stopHeartbeatLoop()
stopHeartbeatLoop(s) ==
    IF s.heartbeatInterval # NoTimer
    THEN [ClearInterval(s, s.heartbeatInterval) EXCEPT !.heartbeatInterval = NoTimer]
    ELSE s

\* startHeartbeatLoop without the immediate this.heartbeat()
startHeartbeatLoop_NoFirstBeat(s, f) ==
    IF s.heartbeatInterval # NoTimer THEN s
    ELSE LET h == [s EXCEPT !.hbUnits = 0, !.hbElapsed = 0] IN
         [SetInterval(h, "hb", 800) EXCEPT !.heartbeatInterval = NewTimerId(h)]

\* startHeartbeatLoop()
startHeartbeatLoop(s, f) ==
    IF s.heartbeatInterval # NoTimer THEN s
    ELSE LET h == heartbeat([s EXCEPT !.hbUnits = 0, !.hbElapsed = 0], f) IN
         [SetInterval(h, "hb", 800) EXCEPT !.heartbeatInterval = NewTimerId(h)]

\* stopBgMusic that cancels future steps only and lets the tracked voices
\* run out
stopBgMusic_FutureOnly(s) ==
    LET t == IF s.bgInterval # NoTimer
             THEN [ClearInterval(s, s.bgInterval) EXCEPT !.bgInterval = NoTimer]
             ELSE s
    IN [t EXCEPT !.bgOscillators = <<>>,
                 !.bgPlaying = FALSE,
                 !.currentMusicType = "null"]

\* stopBgMusic that also stops the heartbeat loop
stopBgMusic_StopsHeartbeat(s) ==
    LET h == stopHeartbeatLoop(s)
        t == IF h.bgInterval # NoTimer
             THEN [ClearInterval(h, h.bgInterval) EXCEPT !.bgInterval = NoTimer]
             ELSE h
    IN [t EXCEPT !.nodes = StopNodes(@, h.bgOscillators, 1),
                 !.bgOscillators = <<>>,
                 !.bgPlaying = FALSE,
                 !.currentMusicType = "null"]

\* stopBgMusic that leaves the mode flags as they were
stopBgMusic_KeepsMode(s) ==
    LET t == IF s.bgInterval # NoTimer
             THEN [ClearInterval(s, s.bgInterval) EXCEPT !.bgInterval = NoTimer]
             ELSE s
    IN [t EXCEPT !.nodes = StopNodes(@, s.bgOscillators, 1),
                 !.bgOscillators = <<>>]

\* stopBgMusic()
stopBgMusic(s) ==
    LET t == IF s.bgInterval # NoTimer
             THEN [ClearInterval(s, s.bgInterval) EXCEPT !.bgInterval = NoTimer]
             ELSE s
    IN [t EXCEPT !.nodes = StopNodes(@, s.bgOscillators, 1),
                 !.bgOscillators = <<>>,
                 !.bgPlaying = FALSE,
                 !.currentMusicType = "null"]

\* const lobbySequence, const suspenseSequence, in hundredths of a hertz
lobbySequence ==
    <<13081, 16481, 19600, 26163,
       9800, 14683, 19600, 24694,
      11000, 16481, 22000, 26163,
       8731, 13081, 19600, 22000>>
suspenseSequence ==
    <<5500, 8241,
      11000, 13081,
      5500, 7342,
      11000, 14683>>

\* const sequence = type === 'lobby' ? lobbySequence : suspenseSequence
Sequence(type) == IF type = "lobby" THEN lobbySequence ELSE suspenseSequence

\* playGuitarPluck(f, vol, dcy): the string o at freq, its harmonic oh at
\* twice freq and the noise burst are created, then started; o and oh are
\* pushed, o alone has onended.  f: the fault.
playGuitarPluck(s, freq, f) ==
    IF f = 1 THEN Throw(s)
    ELSE LET o == NewNodeId(s)
             s1 == StartNode(s, "pluck", 3000, freq)
             s2 == StartNode(s1, "noise", 20, 0)
         IN [s2 EXCEPT !.bgOscillators = @ \o <<o, -o>>]

\* playDrone with the shimmer on the steps after every 4th
playDrone_ShimmerLate(s, freq, f) ==
    LET shimmer == s.bgStep % 4 = 1 IN
    IF f = 1 THEN Throw(s)
    ELSE LET s1 == IF shimmer THEN StartNode(s, "shimmer", 4000, freq * 4) ELSE s IN
         IF shimmer /\ f = 2 THEN Throw(s1)
         ELSE [StartNode(s1, "drone", 4000, freq)
                  EXCEPT !.bgOscillators = Append(@, NewNodeId(s1))]

\* The suspense branch of playNote: the shimmer highO at 4 * freq on every
\* 4th step, never pushed; then the drone o at freq, pushed, with onended.
playDrone(s, freq, f) ==
    LET shimmer == s.bgStep % 4 = 0 IN
    IF f = 1 THEN Throw(s)
    ELSE LET s1 == IF shimmer THEN StartNode(s, "shimmer", 4000, freq * 4) ELSE s IN
         IF shimmer /\ f = 2 THEN Throw(s1)
         ELSE [StartNode(s1, "drone", 4000, freq)
                  EXCEPT !.bgOscillators = Append(@, NewNodeId(s1))]

\* playNote that reads the note after the cursor's
playNote_NextNote(s, type, f) ==
    IF s.muted \/ ~s.bgPlaying THEN s
    ELSE LET sequence == Sequence(type)
             freq == sequence[((s.bgStep + 1) % Len(sequence)) + 1]
             p == IF type = "lobby" THEN playGuitarPluck(s, freq, f)
                  ELSE playDrone(s, freq, f)
         IN IF p.exc THEN p
            ELSE [p EXCEPT !.bgStep = @ + 1]

\* const playNote = () => { ... }, the closure of a startBgMusic(type) call:
\* freq = sequence[bgStep % sequence.length], one step, bgStep++
playNote(s, type, f) ==
    IF s.muted \/ ~s.bgPlaying THEN s
    ELSE LET sequence == Sequence(type)
             freq == sequence[(s.bgStep % Len(sequence)) + 1]
             p == IF type = "lobby" THEN playGuitarPluck(s, freq, f)
                  ELSE playDrone(s, freq, f)
         IN IF p.exc THEN p
            ELSE [p EXCEPT !.bgStep = @ + 1]

\* const interval = type === 'lobby' ? 250 : 1500
Interval(type) == IF type = "lobby" THEN 250 ELSE 1500

\* startBgMusic without "if (bgPlaying) this.stopBgMusic()"
startBgMusic_NoStop(s, type, f) ==
    IF s.muted THEN s
    ELSE IF s.bgPlaying /\ s.currentMusicType = type THEN s
    ELSE LET c == getCtx(s, f) IN
         IF c.exc THEN Catch(c)
         ELSE LET p == playNote([c EXCEPT !.bgPlaying = TRUE,
                                          !.currentMusicType = type,
                                          !.bgStep = 0], type, f)
              IN IF p.exc THEN Catch(p)
                 ELSE [SetInterval(p, type, Interval(type))
                          EXCEPT !.bgInterval = NewTimerId(p)]

\* startBgMusic that restarts whenever music is playing, same type or not
startBgMusic_Restart(s, type, f) ==
    IF s.muted THEN s
    ELSE LET s1 == IF s.bgPlaying THEN stopBgMusic(s) ELSE s
             c == getCtx(s1, f)
         IN IF c.exc THEN Catch(c)
            ELSE LET p == playNote([c EXCEPT !.bgPlaying = TRUE,
                                             !.currentMusicType = type,
                                             !.bgStep = 0], type, f)
                 IN IF p.exc THEN Catch(p)
                    ELSE [SetInterval(p, type, Interval(type))
                             EXCEPT !.bgInterval = NewTimerId(p)]

\* startBgMusic that clears the mute flag instead of returning when muted
startBgMusic_Unmutes(s, type, f) ==
    LET u == [s EXCEPT !.muted = FALSE] IN
    IF u.bgPlaying /\ u.currentMusicType = type THEN u
    ELSE LET s1 == IF u.bgPlaying THEN stopBgMusic(u) ELSE u
             c == getCtx(s1, f)
         IN IF c.exc THEN Catch(c)
            ELSE LET p == playNote([c EXCEPT !.bgPlaying = TRUE,
                                             !.currentMusicType = type,
                                             !.bgStep = 0], type, f)
                 IN IF p.exc THEN Catch(p)
                    ELSE [SetInterval(p, type, Interval(type))
                             EXCEPT !.bgInterval = NewTimerId(p),
                                    !.bgElapsed = 0]

\* startBgMusic without its first line, if (muted) return
startBgMusic_NoMuteCheck(s, type, f) ==
    IF s.bgPlaying /\ s.currentMusicType = type THEN s
    ELSE LET s1 == IF s.bgPlaying THEN stopBgMusic(s) ELSE s
             c == getCtx(s1, f)
         IN IF c.exc THEN Catch(c)
            ELSE LET p == playNote([c EXCEPT !.bgPlaying = TRUE,
                                             !.currentMusicType = type,
                                             !.bgStep = 0], type, f)
                 IN IF p.exc THEN Catch(p)
                    ELSE [SetInterval(p, type, Interval(type))
                             EXCEPT !.bgInterval = NewTimerId(p),
                                    !.bgElapsed = 0]

\* startBgMusic without "bgStep = 0": the cursor goes on from where the
\* stopped session left it
startBgMusic_KeepsStep(s, type, f) ==
    IF s.muted THEN s
    ELSE IF s.bgPlaying /\ s.currentMusicType = type THEN s
    ELSE LET s1 == IF s.bgPlaying THEN stopBgMusic(s) ELSE s
             c == getCtx(s1, f)
         IN IF c.exc THEN Catch(c)
            ELSE LET p == playNote([c EXCEPT !.bgPlaying = TRUE,
                                             !.currentMusicType = type],
                                   type, f)
                 IN IF p.exc THEN Catch(p)
                    ELSE [SetInterval(p, type, Interval(type))
                             EXCEPT !.bgInterval = NewTimerId(p),
                                    !.bgElapsed = 0]

\* startBgMusic(type)
startBgMusic(s, type, f) ==
    IF s.muted THEN s
    ELSE IF s.bgPlaying /\ s.currentMusicType = type THEN s
    ELSE LET s1 == IF s.bgPlaying THEN stopBgMusic(s) ELSE s
             c == getCtx(s1, f)
         IN IF c.exc THEN Catch(c)
            ELSE LET p == playNote([c EXCEPT !.bgPlaying = TRUE,
                                             !.currentMusicType = type,
                                             !.bgStep = 0], type, f)
                 IN IF p.exc THEN Catch(p)
                    ELSE [SetInterval(p, type, Interval(type))
                             EXCEPT !.bgInterval = NewTimerId(p),
                                    !.bgElapsed = 0]

\* stopAll without this.stopHeartbeatLoop()
stopAll_KeepsHeartbeat(s) ==
    LET t == stopBgMusic(s) IN
    [t EXCEPT !.nodes = StopNodes(@, t.activeOscillators, 1),
              !.activeOscillators = <<>>]

\* stopAll()
stopAll(s) ==
    LET t == stopBgMusic(stopHeartbeatLoop(s)) IN
    [t EXCEPT !.nodes = StopNodes(@, t.activeOscillators, 1),
              !.activeOscillators = <<>>]

\* toggleMute without "if (muted) this.stopAll()"
toggleMute_NoStopAll(s) == [s EXCEPT !.muted = ~s.muted]

\* toggleMute that sets the flag instead of flipping it
toggleMute_OnlyMutes(s) ==
    LET u == stopAll([s EXCEPT !.muted = TRUE]) IN
    [u EXCEPT !.ret = u.muted]

\* get muted() { return muted; }
mutedGetter(s) == s.muted

\* toggleMute that brings the lobby music back when it unmutes
toggleMute_Resumes(s) ==
    LET t == [s EXCEPT !.muted = ~s.muted]
        u == IF t.muted THEN stopAll(t) ELSE startBgMusic(t, "lobby", NoFault)
    IN [u EXCEPT !.ret = u.muted]

\* toggleMute(): muted = !muted; if (muted) this.stopAll(); return muted
toggleMute(s) ==
    LET t == [s EXCEPT !.muted = ~s.muted]
        u == IF t.muted THEN stopAll(t) ELSE t
    IN [u EXCEPT !.ret = u.muted]

\* ------------------------------------------------------------ games
\* const state: the page before a game is chosen.  countdown: which callback
\* the live state.activeInterval timer runs; timerSeconds: Room Observer's
\* countdown in seconds; timeLeft: Color Confusion's in tenths of a second.
NoGame ==
    [currentView |-> "home", currentGame |-> "null", currentStage |-> "home",
     countdown |-> "none", timerSeconds |-> 0, timeLeft |-> 0]

Views == {"home", "about", "help", "leaderboard"}

\* let timerSeconds = 10 + (difficultyStep * 2), at level 1 without booster
MemorySeconds == 10
\* if (timerSeconds <= 3 && timerSeconds > 0): Room Observer's window, seconds
MemoryWindow == 3
\* if (timeLeft <= 5 && timeLeft > 0): the survival window, tenths of a second
SurvivalWindow == 50
\* timeLeft += 3 / timeLeft - 3: bonus and penalty, tenths of a second
Bonus == 30

\* if (state.activeInterval) clearInterval(state.activeInterval): the
\* countdown's variables are locals of the cleared callback's closure and
\* die with it.
ClearCountdown(s) ==
    [s EXCEPT !.game.countdown = "none",
              !.game.timerSeconds = 0,
              !.game.timeLeft = 0]

\* initMemoryLobby(), initConfusionGame()
initLobby(s) ==
    [startBgMusic(s, "lobby", NoFault) EXCEPT !.game.currentStage = "lobby"]

\* startGame(gameId): SoundEngine.startBgMusic() has type = 'lobby'
startGame(s, gameId) ==
    initLobby(startBgMusic([s EXCEPT !.game.currentGame = gameId],
                           "lobby", NoFault))

\* initMemoryGame()
initMemoryGame(s) ==
    [startBgMusic(s, "lobby", NoFault)
        EXCEPT !.game.currentStage = "playing",
               !.game.timerSeconds = MemorySeconds,
               !.game.countdown = "memory"]

\* The 1000 ms callback of initMemoryGame
memoryTick(s) ==
    LET n == s.game.timerSeconds - 1
        a == osc([s EXCEPT !.game.timerSeconds = n], NoFault, 30)
        b == IF n <= MemoryWindow /\ n > 0 THEN startHeartbeatLoop(a, NoFault)
             ELSE IF n <= 0 THEN stopHeartbeatLoop(a)
             ELSE a
    IN IF n <= 0 THEN ClearCountdown(b) ELSE b

\* startConfusionMode('survival')
startConfusionMode(s) ==
    [startBgMusic(s, "lobby", NoFault)
        EXCEPT !.game.currentStage = "playing",
               !.game.timeLeft = SurvivalFrom,
               !.game.countdown = "survival"]

\* The 100 ms callback of startConfusionMode, mode 'survival'
survivalTick(s) ==
    LET n == IF s.game.timeLeft > 1 THEN s.game.timeLeft - 1 ELSE 0
        a == [s EXCEPT !.game.timeLeft = n]
        b == IF n <= SurvivalWindow /\ n > 0 THEN startHeartbeatLoop(a, NoFault)
             ELSE IF n <= 0 THEN stopHeartbeatLoop(a)
             ELSE a
    IN IF n <= 0 THEN ClearCountdown(b) ELSE b

\* btn.onclick of a right answer, mode 'survival'
answerCorrect(s) ==
    [correct(s, NoFault) EXCEPT !.game.timeLeft = @ + Bonus]

\* btn.onclick of a wrong answer, mode 'survival'
answerWrong(s) ==
    [osc(s, NoFault, 250)
        EXCEPT !.game.timeLeft = IF @ > Bonus THEN @ - Bonus ELSE 0]

\* goBack()
goBack(s) ==
    LET a == stopAll(s) IN
    IF a.game.currentGame \in {"memory", "confusion"}
       /\ a.game.currentStage = "playing"
    THEN initLobby(ClearCountdown(startBgMusic(a, "lobby", NoFault)))
    ELSE [stopBgMusic(ClearCountdown(a))
             EXCEPT !.game.currentGame = "null",
                    !.game.currentView = "home",
                    !.game.currentStage = "home"]

\* switchView(view)
switchView(s, view) ==
    LET a == [ClearCountdown(s) EXCEPT !.game.currentView = view,
                                       !.game.currentGame = "null",
                                       !.game.currentStage = "home"]
    IN IF view = "home" THEN goBack(a) ELSE a

\* ------------------------------------------------------------ actions
\* Room in the bounded tables for what a call may create.
Room(n) == Len(nodes) + n <= NodeCap
TimerRoom == TimerIds \ DOMAIN timers # {}

\* The six one-voice effects: osc(type, freq, duration, volume)
Click(f) == (muted \/ Room(1)) /\ Commit(osc(Cur, f, 50), "click")
Wrong(f) == (muted \/ Room(1)) /\ Commit(osc(Cur, f, 250), "wrong")
Tick(f) == (muted \/ Room(1)) /\ Commit(osc(Cur, f, 30), "tick")
LightBeep(f) == (muted \/ Room(1)) /\ Commit(osc(Cur, f, 100), "lightBeep")
GoBurst(f) == (muted \/ Room(1)) /\ Commit(osc(Cur, f, 300), "goBurst")
FalseStart(f) == (muted \/ Room(1)) /\ Commit(osc(Cur, f, 500), "falseStart")

Correct(f) == (muted \/ Room(2)) /\ Commit(correct(Cur, f), "correct")
Heartbeat(f) == (muted \/ Room(2)) /\ Commit(heartbeat(Cur, f), "heartbeat")
Fanfare(f) == (muted \/ Room(4)) /\ Commit(fanfare(Cur, f), "fanfare")

StartHeartbeatLoop(f) ==
    /\ TimerRoom
    /\ heartbeatInterval # NoTimer \/ muted \/ Room(2)
    /\ Commit(startHeartbeatLoop(Cur, f), "startHeartbeatLoop")

StopHeartbeatLoop == Commit(stopHeartbeatLoop(Cur), "stopHeartbeatLoop")

\* Table entries one step may take: string pair and noise, or shimmer and
\* drone.
StepNodes == 2

StartBgMusic(type, f) ==
    /\ TimerRoom
    /\ muted \/ (bgPlaying /\ currentMusicType = type) \/ Room(StepNodes)
    /\ Commit(startBgMusic(Cur, type, f), "startBgMusic")

StopBgMusic == Commit(stopBgMusic(Cur), "stopBgMusic")

StopAll == Commit(stopAll(Cur), "stopAll")

ToggleMute == Commit(toggleMute(Cur), "toggleMute")

\* The interval callback () => this.heartbeat() of timer id fires.
HeartbeatTimer(id, f) ==
    /\ id \in DOMAIN timers
    /\ timers[id].kind = "hb"
    /\ timers[id].due = 0
    /\ muted \/ Room(2)
    /\ Commit([heartbeat(Cur, f) EXCEPT !.timers[id].due = Life(Cur, 800)],
              "event")

\* The interval callback playNote of timer id fires.  The callback runs
\* outside the try block of the startBgMusic call that made it: an exception
\* it throws ends the callback and reaches the browser, which reports it
\* (window.onerror); the timer stays armed.
BgTimer(id, f) ==
    /\ id \in DOMAIN timers
    /\ timers[id].kind \in {"lobby", "suspense"}
    /\ timers[id].due = 0
    /\ \/ muted \/ ~bgPlaying
       \/ Room(StepNodes) /\ bgStep < StepCap
    /\ Commit([playNote(Cur, timers[id].kind, f)
                  EXCEPT !.timers[id].due = Life(Cur, Interval(timers[id].kind))],
              "event")

\* The nodes whose end is due now.  A clocked run delivers the ends that
\* fall on one instant in creation order; otherwise any of them comes next.
Due == {o \in DOMAIN nodes : nodes[o].rem = 0}
NextDue(o) == o \in Due /\ (clocked => o = Min(Due))

\* An ended event whose handler forgets to filter the lists
OnEnded_KeepsTracked(o) ==
    /\ o \in DOMAIN nodes
    /\ nodes[o].kind \in {"fx", "pluck", "drone"}
    /\ NextDue(o)
    /\ Commit([Cur EXCEPT !.nodes = RemoveAt(@, o)], "event")

\* The ended event of node o is a late one: o was stopped by force, and
\* voices created after it are tracked by now.
Late(o) ==
    /\ o \in DOMAIN nodes
    /\ nodes[o].st = "stopped"
    /\ \E n \in Range(activeOscillators) \cup Range(bgOscillators) : n > o

\* An ended event whose handler drops the newest entry of its list instead
\* of filtering out its own node
OnEnded_DropsNewest(o) ==
    /\ o \in DOMAIN nodes
    /\ nodes[o].kind \in {"fx", "pluck", "drone"}
    /\ NextDue(o)
    /\ LET k == nodes[o].kind
           pop(q) == SubSeq(q, 1, Len(q) - 1)
       IN Commit(Forget([Cur EXCEPT
                    !.activeOscillators = IF k = "fx" THEN pop(@) ELSE @,
                    !.bgOscillators = IF k = "fx" THEN @ ELSE pop(@)], o),
                 IF Late(o) THEN "late" ELSE "event")

\* An ended event whose handler filters out o alone, not the harmonic oh
\* pushed with it
OnEnded_KeepsHarmonic(o) ==
    /\ o \in DOMAIN nodes
    /\ nodes[o].kind \in {"fx", "pluck", "drone"}
    /\ NextDue(o)
    /\ LET k == nodes[o].kind
       IN Commit(Forget([Cur EXCEPT
                    !.activeOscillators = IF k = "fx" THEN SeqFilterOut(@, {o}) ELSE @,
                    !.bgOscillators = IF k = "fx" THEN @ ELSE SeqFilterOut(@, {o})], o),
                 IF Late(o) THEN "late" ELSE "event")

\* The "ended" event of a node with an onended handler is delivered: at its
\* natural end, or after a forced stop().
OnEnded(o) ==
    /\ o \in DOMAIN nodes
    /\ nodes[o].kind \in {"fx", "pluck", "drone"}
    /\ NextDue(o)
    /\ LET k == nodes[o].kind
           gone == IF k = "pluck" THEN {o, -o} ELSE {o}
       IN Commit(Forget([Cur EXCEPT
                    !.activeOscillators = IF k = "fx" THEN SeqFilterOut(@, {o}) ELSE @,
                    !.bgOscillators = IF k = "fx" THEN @ ELSE SeqFilterOut(@, gone)], o),
                 IF Late(o) THEN "late" ELSE "event")

\* A node without handler (noise burst, shimmer) reaches its end.
NodeEnds(o) ==
    /\ o \in DOMAIN nodes
    /\ nodes[o].kind \in {"noise", "shimmer"}
    /\ NextDue(o)
    /\ Commit(Forget(Cur, o), "event")

\* A handler of the page runs and leaves state r, within the bounded tables.
Page(r, op) ==
    /\ Len(r.nodes) <= NodeCap
    /\ Commit(r, op)

\* A mode card on the home screen is clicked.
StartGame(gameId) ==
    /\ game.currentView = "home"
    /\ game.currentGame = "null"
    /\ Page(startGame(Cur, gameId), "startGame")

\* The start button of the Room Observer lobby.
InitMemoryGame ==
    /\ game.currentGame = "memory"
    /\ game.currentStage = "lobby"
    /\ Page(initMemoryGame(Cur), "initMemoryGame")

\* The survival button of the Color Confusion lobby.
StartConfusionMode ==
    /\ game.currentGame = "confusion"
    /\ game.currentStage = "lobby"
    /\ Page(startConfusionMode(Cur), "startConfusionMode")

MemoryTick ==
    /\ game.countdown = "memory"
    /\ Page(memoryTick(Cur), "memoryTick")

SurvivalTick ==
    /\ game.countdown = "survival"
    /\ Page(survivalTick(Cur), "survivalTick")

\* An answer button, while the survival round is on.
AnswerCorrect ==
    /\ game.countdown = "survival"
    /\ game.timeLeft + Bonus <= MaxTimeLeft
    /\ Page(answerCorrect(Cur), "answerCorrect")

AnswerWrong ==
    /\ game.countdown = "survival"
    /\ Page(answerWrong(Cur), "answerWrong")

\* The Back button of a game toolbar or of the about, help and leaderboard
\* pages.
GoBack ==
    /\ game.currentGame # "null" \/ game.currentView # "home"
    /\ Page(goBack(Cur), "goBack")

\* A navbar link.
SwitchView(view) == Page(switchView(Cur, view), "switchView")

\* The mute button of a game toolbar.
MuteButton ==
    /\ game.currentGame # "null"
    /\ ToggleMute

\* The browser suspends the running context (autoplay policy, an
\* interruption of the audio hardware).
CtxSuspend ==
    /\ ctx = "running"
    /\ Commit([Cur EXCEPT !.ctx = "suspended"], "event")

\* The page makes no call from now on: the engine is left to its timers and
\* to the ended events of the nodes still in the table.
Quit ==
    /\ live
    /\ live' = FALSE
    /\ UNCHANGED <<ctx, muted, activeOscillators, bgOscillators, bgPlaying,
                   currentMusicType, heartbeatInterval, bgInterval, bgStep,
                   nodes, timers, clocked, hbUnits, hbElapsed, bgElapsed,
                   game, ctxMade, watch, scenario, uncaught>>

\* Simulated time runs to the next scheduled instant; nothing is due now.
Pending == {timers[i].due : i \in DOMAIN timers} \cup {nodes[o].rem : o \in DOMAIN nodes}

Advance ==
    /\ clocked
    /\ Pending # {}
    /\ 0 \notin Pending
    /\ LET d == Min(Pending) IN
       /\ heartbeatInterval # NoTimer => hbElapsed + d <= MaxElapsed
       /\ bgInterval # NoTimer => bgElapsed + d <= MaxSeqElapsed
       /\ Commit([Cur EXCEPT
                    !.timers = [i \in DOMAIN @ |-> [@[i] EXCEPT !.due = @ - d]],
                    !.nodes = [o \in DOMAIN @ |->
                                 [@[o] EXCEPT !.rem = @ - d,
                                              !.at = IF @ > d THEN @ - d ELSE 0]],
                    !.hbElapsed = IF heartbeatInterval # NoTimer THEN @ + d ELSE @,
                    !.bgElapsed = IF bgInterval # NoTimer THEN @ + d ELSE @],
                 "event")

\* ------------------------------------------------------------ specifications
InitEngine ==
    /\ ctx = "none"
    /\ muted = FALSE
    /\ activeOscillators = <<>>
    /\ bgOscillators = <<>>
    /\ bgPlaying = FALSE
    /\ currentMusicType = "null"
    /\ heartbeatInterval = NoTimer
    /\ bgInterval = NoTimer
    /\ bgStep = 0
    /\ nodes = <<>>
    /\ timers = <<>>
    /\ hbUnits = 0
    /\ hbElapsed = 0
    /\ bgElapsed = 0
    /\ game = NoGame
    /\ ctxMade = 0
    /\ live = TRUE
    /\ scenario = 0
    /\ uncaught = FALSE

Init == InitEngine /\ clocked = FALSE /\ watch = FALSE

\* Any call, callback or event, at any moment, with any fault injected.
Next ==
    \/ \E f \in Faults(1) : Click(f)
    \/ \E f \in Faults(1) : Wrong(f)
    \/ \E f \in Faults(1) : Tick(f)
    \/ \E f \in Faults(1) : LightBeep(f)
    \/ \E f \in Faults(1) : GoBurst(f)
    \/ \E f \in Faults(1) : FalseStart(f)
    \/ \E f \in Faults(2) : Correct(f)
    \/ \E f \in Faults(2) : Heartbeat(f)
    \/ \E f \in Faults(4) : Fanfare(f)
    \/ \E f \in Faults(2) : StartHeartbeatLoop(f)
    \/ StopHeartbeatLoop
    \/ \E type \in {"lobby", "suspense"}, f \in Faults(2) : StartBgMusic(type, f)
    \/ StopBgMusic
    \/ StopAll
    \/ ToggleMute
    \/ \E id \in TimerIds, f \in Faults(2) : HeartbeatTimer(id, f)
    \/ \E id \in TimerIds, f \in Faults(2) : BgTimer(id, f)
    \/ \E o \in NodeIds : OnEnded(o)
    \/ \E o \in NodeIds : NodeEnds(o)

Spec == Init /\ [][Next]_vars

\* Any call, callback or event, at any moment, with a working backend: no
\* Web Audio call throws.
NextOk ==
    \/ Click(NoFault)
    \/ Wrong(NoFault)
    \/ Tick(NoFault)
    \/ LightBeep(NoFault)
    \/ GoBurst(NoFault)
    \/ FalseStart(NoFault)
    \/ Correct(NoFault)
    \/ Heartbeat(NoFault)
    \/ Fanfare(NoFault)
    \/ StartHeartbeatLoop(NoFault)
    \/ StopHeartbeatLoop
    \/ \E type \in {"lobby", "suspense"} : StartBgMusic(type, NoFault)
    \/ StopBgMusic
    \/ StopAll
    \/ ToggleMute
    \/ \E id \in TimerIds : HeartbeatTimer(id, NoFault)
    \/ \E id \in TimerIds : BgTimer(id, NoFault)
    \/ \E o \in NodeIds : OnEnded(o)
    \/ \E o \in NodeIds : NodeEnds(o)

\* The same start, with late ended events noted.
InitOk == InitEngine /\ clocked = FALSE /\ watch = TRUE

SpecOk == InitOk /\ [][NextOk]_vars

\* A fake-timer run of the heartbeat loop with a working backend: timers
\* fire and ended events arrive exactly on schedule.
InitClock == InitEngine /\ clocked = TRUE /\ watch = FALSE

NextClock ==
    \/ StartHeartbeatLoop(NoFault)
    \/ StopHeartbeatLoop
    \/ \E id \in TimerIds : HeartbeatTimer(id, NoFault)
    \/ \E o \in NodeIds : OnEnded(o)
    \/ Advance

SpecClock == InitClock /\ [][NextClock]_vars

\* A background session is started out of silence, with a working backend.
SeqStart(type) ==
    /\ ~bgPlaying
    /\ nodes = <<>>
    /\ StartBgMusic(type, NoFault)

\* A fake-timer run of the background sequencer with a working backend: one
\* session at a time, started out of silence, stopped at any instant.
NextSeq ==
    \/ \E type \in {"lobby", "suspense"} : SeqStart(type)
    \/ StopBgMusic
    \/ \E id \in TimerIds : BgTimer(id, NoFault)
    \/ \E o \in NodeIds : OnEnded(o)
    \/ \E o \in NodeIds : NodeEnds(o)
    \/ Advance

SpecSeq == InitClock /\ [][NextSeq]_vars

\* An engine that is played, stopped by stopAll() at any moment and played
\* again, with a working backend.
NextStop ==
    \/ Click(NoFault)
    \/ StartHeartbeatLoop(NoFault)
    \/ \E type \in {"lobby", "suspense"} : StartBgMusic(type, NoFault)
    \/ StopAll
    \/ ToggleMute
    \/ \E id \in TimerIds : HeartbeatTimer(id, NoFault)
    \/ \E id \in TimerIds : BgTimer(id, NoFault)
    \/ \E o \in NodeIds : OnEnded(o)
    \/ \E o \in NodeIds : NodeEnds(o)

SpecStop == Init /\ [][NextStop]_vars

\* The calls that acquire the context, the calls that do not, and a browser
\* that may suspend the context at any moment.
NextCtx ==
    \/ \E f \in Faults(1) : Click(f)
    \/ \E f \in Faults(2) : StartHeartbeatLoop(f)
    \/ \E type \in {"lobby", "suspense"}, f \in Faults(2) : StartBgMusic(type, f)
    \/ StopAll
    \/ ToggleMute
    \/ \E id \in TimerIds, f \in Faults(2) : HeartbeatTimer(id, f)
    \/ \E o \in NodeIds : OnEnded(o)
    \/ \E o \in NodeIds : NodeEnds(o)
    \/ CtxSuspend

SpecCtx == Init /\ [][NextCtx]_vars

\* The page as a player drives it: games are chosen, started, played and
\* left, with a working backend; heartbeat firings and ended events come at
\* any moment.  The later steps of the background music are not followed.
NextGame ==
    \/ \E gameId \in {"memory", "confusion"} : StartGame(gameId)
    \/ InitMemoryGame
    \/ StartConfusionMode
    \/ MemoryTick
    \/ SurvivalTick
    \/ AnswerCorrect
    \/ AnswerWrong
    \/ GoBack
    \/ \E view \in Views : SwitchView(view)
    \/ MuteButton
    \/ \E id \in TimerIds : HeartbeatTimer(id, NoFault)
    \/ \E o \in NodeIds : OnEnded(o)
    \/ \E o \in NodeIds : NodeEnds(o)

SpecGame == Init /\ [][NextGame]_vars

\* Calls for as long as the page makes any, then none; timers fire and ended
\* events arrive at any moment, with a working backend.  The music is the
\* lobby's, whose string and harmonic are tracked as a pair.
NextFair ==
    \/ live /\ Click(NoFault)
    \/ live /\ StartHeartbeatLoop(NoFault)
    \/ live /\ StopHeartbeatLoop
    \/ live /\ StartBgMusic("lobby", NoFault)
    \/ live /\ StopBgMusic
    \/ live /\ StopAll
    \/ Quit
    \/ \E id \in TimerIds : HeartbeatTimer(id, NoFault)
    \/ \E id \in TimerIds : BgTimer(id, NoFault)
    \/ \E o \in NodeIds : OnEnded(o)
    \/ \E o \in NodeIds : NodeEnds(o)

\* The browser delivers the ended event of every node that has ended or has
\* been stopped: end callbacks are scheduled fairly.
SpecFair ==
    /\ Init
    /\ [][NextFair]_vars
    /\ WF_vars(\E o \in NodeIds : OnEnded(o))

\* A call comes while at most MaxBacklog earlier voices are alive.
Calm == Len(nodes) <= MaxBacklog

\* A fake-timer run of the effect library, unmuted, with a working backend.
NextFx ==
    \/ Calm /\ Click(NoFault)
    \/ Calm /\ Wrong(NoFault)
    \/ Calm /\ Tick(NoFault)
    \/ Calm /\ LightBeep(NoFault)
    \/ Calm /\ GoBurst(NoFault)
    \/ Calm /\ FalseStart(NoFault)
    \/ Calm /\ Correct(NoFault)
    \/ Calm /\ hbUnits < MaxBeats /\ Heartbeat(NoFault)
    \/ Calm /\ Fanfare(NoFault)
    \/ \E o \in NodeIds : OnEnded(o)
    \/ Advance

SpecFx == InitClock /\ [][NextFx]_vars

TypeOK ==
    /\ ctx \in {"none", "running", "suspended"}
    /\ muted \in BOOLEAN
    /\ bgPlaying \in BOOLEAN
    /\ currentMusicType \in {"null", "lobby", "suspense"}
    /\ heartbeatInterval \in TimerIds \cup {NoTimer}
    /\ bgInterval \in TimerIds \cup {NoTimer}
    /\ bgStep \in 0..StepCap
    /\ DOMAIN nodes \subseteq NodeIds
    /\ \A o \in DOMAIN nodes :
          /\ nodes[o].kind \in {"fx", "pluck", "noise", "drone", "shimmer"}
          /\ nodes[o].st \in {"playing", "stopped"}
          /\ nodes[o].at >= 0
          /\ nodes[o].rem >= 0
          /\ nodes[o].hz >= 0
    /\ DOMAIN timers \subseteq TimerIds
    /\ Range(activeOscillators) \subseteq DOMAIN nodes
    /\ \A o \in Range(bgOscillators) : Abs(o) \in DOMAIN nodes
    /\ game.currentView \in Views
    /\ game.currentGame \in {"null", "memory", "confusion"}
    /\ game.currentStage \in {"home", "lobby", "playing"}
    /\ game.countdown \in {"none", "memory", "survival"}
    /\ game.timerSeconds \in 0..MemorySeconds
    /\ game.timeLeft \in 0..MaxTimeLeft
    /\ ctxMade \in Nat
    /\ live \in BOOLEAN
    /\ watch \in BOOLEAN
    /\ scenario \in 0..10
    /\ uncaught \in BOOLEAN

\* ------------------------------------------------------------ observations
\* The fault f strikes a call that builds n voices from the current state:
\* the call gets past its mute check, and either it has to construct the
\* AudioContext and the constructor throws, or building voice f throws.
Fails(f, n) ==
    /\ ~muted
    /\ \/ f = CtxFault /\ ctx = "none"
       \/ f \in 1..n

Modes == {"lobby", "suspense"}

\* The live timers whose callback is the heartbeat, or a session's playNote.
HbTimers == {id \in DOMAIN timers : timers[id].kind = "hb"}
BgTimers == {id \in DOMAIN timers : timers[id].kind \in Modes}

\* Nodes of the given kinds, stopped by force with their end still pending,
\* or still sounding.
Stopped(kinds) ==
    {o \in DOMAIN nodes : nodes[o].kind \in kinds /\ nodes[o].st = "stopped"}
Sounding(kinds) ==
    {o \in DOMAIN nodes : nodes[o].kind \in kinds /\ nodes[o].st = "playing"}

\* The source nodes a session of the given mode creates.
KindsOf(type) == IF type = "lobby" THEN {"pluck", "noise"} ELSE {"drone", "shimmer"}

\* Nothing tracked, nothing armed, no session.
Quiet ==
    /\ activeOscillators = <<>>
    /\ bgOscillators = <<>>
    /\ HbTimers = {}
    /\ BgTimers = {}
    /\ heartbeatInterval = NoTimer
    /\ bgInterval = NoTimer
    /\ ~bgPlaying
    /\ currentMusicType = "null"

\* The nodes a step creates: no step both creates and releases nodes.
Created == SubSeq(nodes', Len(nodes) + 1, Len(nodes'))

\* A session of the given mode is playing with its timer armed.
Session(type) ==
    /\ bgPlaying
    /\ currentMusicType = type
    /\ bgInterval \in DOMAIN timers

engine == <<ctx, muted, activeOscillators, bgOscillators, bgPlaying,
            currentMusicType, heartbeatInterval, bgInterval, bgStep,
            nodes, timers>>

\* ------------------------------------------------------------ claims

\* C1: from every reachable state, the state right after stopAll() has both
\* tracked lists (activeOscillators, bgOscillators) empty, no heartbeat timer
\* and no background timer armed, both handles null and the mode idle.
C1_StopAllLeavesNothing == [][StopAll => Quiet']_vars

\* C1 witness: an unmuted, quiet state in which an effect voice and a
\* background voice have been stopped by force and not yet delivered their end.
C1_Witness ==
    /\ ~muted
    /\ Quiet
    /\ Stopped({"fx"}) # {}
    /\ Stopped({"pluck", "drone"}) # {}

\* C2: from every reachable unmuted state, toggleMute() sets the flag and, in
\* the same step, empties both tracked lists, disarms both timers and leaves
\* the mode idle.
C2_MuteSilences == [][(ToggleMute /\ ~muted) => (muted' /\ Quiet')]_vars

\* C2 witness: the last call muted the engine (scenario = 1) and stopped an
\* effect voice and a background voice by force.
C2_Witness ==
    /\ muted
    /\ scenario = 1
    /\ Quiet
    /\ Stopped({"fx"}) # {}
    /\ Stopped({"pluck", "drone"}) # {}

\* C3: while the flag is set both tracked lists are empty, and no step that
\* starts and ends muted (an effect call, a heartbeat firing, a background
\* step) creates a source node.
C3_MutedStaysEmpty ==
    /\ [](muted => (activeOscillators = <<>> /\ bgOscillators = <<>>))
    /\ [][(muted /\ muted') => Len(nodes') <= Len(nodes)]_vars

\* C3 witness: correct() has been called while muted (scenario = 2) and the
\* lists are empty.
C3_Witness ==
    /\ muted
    /\ scenario = 2
    /\ activeOscillators = <<>>
    /\ bgOscillators = <<>>

\* C4 (as claimed): while the flag is set no heartbeat timer and no
\* background timer is armed and no session is active.
C4_NoSessionWhileMuted ==
    muted => /\ HbTimers = {}
             /\ BgTimers = {}
             /\ heartbeatInterval = NoTimer
             /\ bgInterval = NoTimer
             /\ ~bgPlaying

\* C5: every live interval timer is the one whose handle the engine holds
\* (a heartbeat timer in heartbeatInterval, a playNote timer of the current
\* mode in bgInterval), so at most one of each kind is armed.
C5_OneTriggerEach ==
    /\ \A id \in DOMAIN timers :
          \/ timers[id].kind = "hb" /\ heartbeatInterval = id
          \/ timers[id].kind = currentMusicType /\ bgInterval = id
    /\ Cardinality(HbTimers) <= 1
    /\ Cardinality(BgTimers) <= 1

\* C5 witness: both timers armed, after a switch from suspense to lobby whose
\* drone still has its end pending.
C5_Witness ==
    /\ Cardinality(DOMAIN timers) = 2
    /\ heartbeatInterval # NoTimer
    /\ currentMusicType = "lobby"
    /\ Stopped({"drone"}) # {}

\* C6: startBgMusic(m) while a session of mode m is active changes nothing:
\* mode, cursor, timers, lists and nodes are as before.
C6_SameModeNoOp ==
    [][\A type \in Modes :
          (bgPlaying /\ currentMusicType = type
             /\ \E f \in Faults(2) : StartBgMusic(type, f))
          => UNCHANGED engine]_vars

\* C6 witness: a lobby session two or more steps in, one timer armed, its
\* voices tracked: the state a second startBgMusic('lobby') finds and leaves.
C6_Witness ==
    /\ bgPlaying
    /\ currentMusicType = "lobby"
    /\ BgTimers = {bgInterval}
    /\ bgStep >= 2
    /\ Len(bgOscillators) >= 2

\* C7 (as claimed): startBgMusic(new) on a running session of the other mode,
\* with a working backend, leaves a session of mode new that starts over at
\* step 0 (the call plays step 0, so the cursor reads 1), with the new timer
\* the only one armed and no source node of the old mode still sounding.
C7_SwitchLeavesNoOldVoice ==
    [][\A old \in Modes, new \in Modes :
          (old # new /\ ~muted /\ bgPlaying /\ currentMusicType = old
             /\ bgInterval # NoTimer /\ StartBgMusic(new, NoFault))
          => /\ bgPlaying'
             /\ currentMusicType' = new
             /\ bgStep' = 1
             /\ BgTimers' = {bgInterval'}
             /\ timers'[bgInterval'].kind = new
             /\ Sounding(KindsOf(old))' = {}]_vars

\* C8 (as amended): in a clocked run of the loop, exactly one heartbeat timer
\* is armed and the units played are the immediate one plus one per 800 ms
\* elapsed once that instant's firing has run: 5 units at every moment of
\* the first 4000 ms from the firing at 3200 ms on, and never more than 5
\* before the 4000 ms instant.  A second startHeartbeatLoop() changes nothing.
C8_OneLoopFiveUnits ==
    /\ [](heartbeatInterval # NoTimer =>
            /\ HbTimers = {heartbeatInterval}
            /\ LET due == timers[heartbeatInterval].due IN
               /\ hbUnits = (IF due = 0 THEN 0 ELSE 1) + hbElapsed \div 800
               /\ (hbElapsed + due) % 800 = 0
               /\ hbElapsed < 4000 => hbUnits <= 5
               /\ (hbElapsed < 4000 /\ (hbElapsed > 3200 \/ (hbElapsed = 3200 /\ due > 0)))
                     => hbUnits = 5)
    /\ [][(heartbeatInterval # NoTimer /\ StartHeartbeatLoop(NoFault))
            => UNCHANGED vars]_vars

\* C8 witness: the loop has run between 3200 and 4000 ms and played 5 units.
C8_Witness ==
    /\ heartbeatInterval # NoTimer
    /\ hbElapsed > 3200
    /\ hbElapsed < 4000
    /\ hbUnits = 5

\* C8 (as claimed): once 4000 ms of simulated time have run, exactly 5 units
\* have been played, the immediate one included.
C8_FiveUnitsOver4000 ==
    (heartbeatInterval # NoTimer /\ hbElapsed = 4000) => hbUnits = 5

\* C9: while the handle is null no heartbeat timer is live, and no step that
\* starts and ends with the handle null plays a heartbeat unit, whatever
\* time elapses.
C9_NoUnitAfterStop ==
    /\ [](heartbeatInterval = NoTimer => HbTimers = {})
    /\ [][(heartbeatInterval = NoTimer /\ heartbeatInterval' = NoTimer)
            => hbUnits' = hbUnits]_vars

\* C9 witness: the loop played at least two units, was stopped, and time has
\* run on until every voice has ended.
C9_Witness ==
    /\ heartbeatInterval = NoTimer
    /\ hbUnits >= 2
    /\ nodes = <<>>

\* C10: in the sequence toggleMute() (to muted), correct(), toggleMute() (to
\* unmuted), correct(), the first correct() creates no node and leaves both
\* lists empty; the second, with a working backend, finds activeOscillators
\* empty and adds exactly two sounding effect voices to it.
C10_MuteCorrectUnmuteCorrect ==
    [][/\ (scenario = 1 /\ \E f \in Faults(2) : Correct(f))
            => /\ nodes' = nodes
               /\ activeOscillators' = <<>>
               /\ bgOscillators' = <<>>
       /\ (scenario = 3 /\ Correct(NoFault))
            => /\ activeOscillators = <<>>
               /\ Len(nodes') = Len(nodes) + 2
               /\ activeOscillators' = <<Len(nodes) + 1, Len(nodes) + 2>>
               /\ \A o \in Range(activeOscillators') :
                     nodes'[o].kind = "fx" /\ nodes'[o].st = "playing"
               /\ bgOscillators' = bgOscillators]_vars

\* C10 witness: the fourth call of the sequence has been made and two effect
\* voices are tracked.
C10_Witness ==
    /\ scenario = 4
    /\ ~muted
    /\ Len(activeOscillators) = 2

\* C11 (as claimed): a source node is tracked (in activeOscillators or in
\* bgOscillators) if and only if it has been started and has neither ended
\* nor been stopped by force; for every node the engine creates, the noise
\* burst of a plucked string and the suspense shimmer included.
C11_TrackedIffSounding ==
    \A o \in DOMAIN nodes :
        nodes[o].st = "playing"
            <=> \/ o \in Range(activeOscillators)
                \/ o \in Range(bgOscillators)

\* C12 (as claimed): right after stopBgMusic() the background timer is
\* cancelled, the mode is idle, and no node a background step created (string,
\* noise burst, drone, shimmer) is still sounding.
C12_StopBgSilencesAll ==
    [][StopBgMusic =>
          /\ BgTimers' = {}
          /\ bgInterval' = NoTimer
          /\ ~bgPlaying'
          /\ currentMusicType' = "null"
          /\ bgOscillators' = <<>>
          /\ Sounding({"pluck", "noise", "drone", "shimmer"})' = {}]_vars

\* C13 (as claimed): a one-shot effect call struck by a backend failure lets
\* no exception out and changes nothing: both tracked lists, the nodes, both
\* sessions and the mute flag are as before the call; also when the failure
\* strikes a later voice of correct, heartbeat or fanfare.
C13_FailedEffectNoOp ==
    [][\A f \in Faults(4) :
          (\/ Fails(f, 1) /\ (\/ Click(f) \/ Wrong(f) \/ Tick(f)
                              \/ LightBeep(f) \/ GoBurst(f) \/ FalseStart(f))
           \/ Fails(f, 2) /\ (Correct(f) \/ Heartbeat(f))
           \/ Fails(f, 4) /\ Fanfare(f))
          => /\ ~uncaught'
             /\ UNCHANGED <<muted, activeOscillators, bgOscillators, nodes,
                            timers, heartbeatInterval, bgInterval, bgPlaying,
                            currentMusicType, bgStep>>]_vars

\* C14 (as claimed): a startBgMusic(type) call struck by a backend failure,
\* on acquiring the context or on synthesizing step 0, lets no exception out
\* and leaves the background session idle: not playing, mode null, no timer.
C14_FailedStartLeavesIdle ==
    [][\A type \in Modes, f \in Faults(2) :
          (/\ Fails(f, IF type = "suspense" THEN 2 ELSE 1)
           /\ ~(bgPlaying /\ currentMusicType = type)
           /\ StartBgMusic(type, f))
          => /\ ~uncaught'
             /\ ~bgPlaying'
             /\ currentMusicType' = "null"
             /\ bgInterval' = NoTimer
             /\ BgTimers' = {}]_vars

\* C15 (as claimed): when a recurring trigger fires (heartbeat loop or
\* background step) and the backend fails, the exception is caught inside the
\* engine, none reaches the browser as an uncaught error, and the timer stays
\* armed for its later firings.
C15_TimerFaultsCaught ==
    [][\A id \in TimerIds, f \in Faults(2) :
          (HeartbeatTimer(id, f) \/ BgTimer(id, f))
          => /\ ~uncaught'
             /\ id \in DOMAIN timers'
             /\ timers'[id].kind = timers[id].kind]_vars

\* C16: stopHeartbeatLoop() cancels the heartbeat timer and nothing else:
\* every tracked voice stays in its list, every node keeps sounding with its
\* own end time, and the background session (flag, mode, cursor, timer) and
\* the mute flag are as before.
C16_StopLoopFrame ==
    [][StopHeartbeatLoop =>
          /\ heartbeatInterval' = NoTimer
          /\ HbTimers' = {}
          /\ UNCHANGED <<activeOscillators, bgOscillators, nodes, muted,
                         bgPlaying, currentMusicType, bgInterval, bgStep>>
          /\ BgTimers' = BgTimers
          /\ \A id \in BgTimers : timers'[id] = timers[id]]_vars

\* C16 witness: the last call was a stopHeartbeatLoop() that found the loop
\* armed; the two voices of a heartbeat unit are still tracked and sounding
\* and a background session is still playing.
C16_Witness ==
    /\ scenario = 6
    /\ heartbeatInterval = NoTimer
    /\ ~muted
    /\ Len(activeOscillators) = 2
    /\ \A o \in Range(activeOscillators) : nodes[o].st = "playing"
    /\ bgPlaying
    /\ BgTimers = {bgInterval}

\* C17 (as amended): a direct stopBgMusic() cancels the future steps and
\* also stops by force, at once, every background voice tracked in
\* bgOscillators (string pairs, drones), just as stopAll() does; every other
\* node (effect voices, the untracked noise burst and shimmer) runs on
\* untouched to its own end, and the heartbeat loop is left alone.
C17_StopBgTruncatesTracked ==
    [][StopBgMusic =>
          /\ BgTimers' = {}
          /\ bgOscillators' = <<>>
          /\ DOMAIN nodes' = DOMAIN nodes
          /\ \A o \in DOMAIN nodes :
                IF o \in Range(bgOscillators)
                THEN nodes'[o] = [nodes[o] EXCEPT !.st = "stopped", !.rem = 0]
                ELSE nodes'[o] = nodes[o]
          /\ UNCHANGED <<activeOscillators, heartbeatInterval, muted>>
          /\ HbTimers' = HbTimers]_vars

\* C17 witness: the last call was a stopBgMusic() that found a suspense
\* session playing; its drone is stopped with the end event pending, its
\* shimmer sounds on, and an effect voice is still tracked and sounding.
C17_Witness ==
    /\ scenario = 7
    /\ ~bgPlaying
    /\ Stopped({"drone"}) # {}
    /\ Sounding({"shimmer"}) # {}
    /\ Sounding({"fx"}) # {}
    /\ activeOscillators # <<>>

\* C17 (as claimed): a direct stopBgMusic() cancels only the future steps;
\* no voice already started is cut short.
C17_StopBgFutureOnly ==
    [][StopBgMusic => (BgTimers' = {} /\ nodes' = nodes)]_vars

\* C18: toggleMute() always flips the flag and returns the flag's new value;
\* the muted getter reads the flag; a toggleMute() that follows a toggleMute()
\* brings the flag back to what it was before the pair (unmuted when the
\* previous call muted, muted when the previous call unmuted).
C18_ToggleFlips ==
    /\ [](mutedGetter(Cur) = muted)
    /\ [][ToggleMute =>
            /\ muted' = ~muted
            /\ toggleMute(Cur).ret = muted'
            /\ mutedGetter(toggleMute(Cur)) = muted'
            /\ scenario = 1 => (muted /\ ~muted')
            /\ scenario \in {3, 5} => (~muted /\ muted')]_vars

\* C18 witness: the last two calls were toggleMute() twice, from unmuted, and
\* the flag is unmuted again.
C18_Witness ==
    /\ scenario = 5
    /\ ~muted

\* C19: in a clocked run with a working backend, startBgMusic plays step 0
\* itself and arms the timer one interval ahead (250 ms lobby, 1500 ms
\* suspense); from then on one step is played per interval, so the steps
\* played are the one at time 0 plus one per interval elapsed; the step
\* played at the k-th interval sounds note k mod 16 of the lobby sequence or
\* k mod 8 of the suspense sequence, and moves the cursor from k to k + 1.
C19_StepsInOrder ==
    /\ [](\A type \in Modes :
            Session(type) =>
               LET due == timers[bgInterval].due
                   every == IF type = "lobby" THEN 250 ELSE 1500
               IN /\ (bgElapsed + due) % every = 0
                  /\ bgStep = (IF due = 0 THEN 0 ELSE 1) + bgElapsed \div every)
    /\ [][\A type \in Modes :
            SeqStart(type) =>
               /\ Session(type)'
               /\ bgStep' = 1
               /\ bgElapsed' = 0
               /\ timers'[bgInterval'].due = IF type = "lobby" THEN 250 ELSE 1500
               /\ type = "lobby" => /\ Created[1].kind = "pluck"
                                    /\ Created[1].hz = lobbySequence[1]
               /\ type = "suspense" =>
                     /\ Created[Len(Created)].kind = "drone"
                     /\ Created[Len(Created)].hz = suspenseSequence[1]]_vars
    /\ [][\A id \in TimerIds :
            (bgPlaying /\ BgTimer(id, NoFault)) =>
               LET lobby == currentMusicType = "lobby"
                   k == bgElapsed \div (IF lobby THEN 250 ELSE 1500)
               IN /\ bgStep = k
                  /\ bgStep' = k + 1
                  /\ lobby => /\ Len(Created) = 2
                              /\ Created[1].kind = "pluck"
                              /\ Created[1].hz = lobbySequence[(k % 16) + 1]
                  /\ ~lobby => /\ Created # <<>>
                               /\ Created[Len(Created)].kind = "drone"
                               /\ Created[Len(Created)].hz
                                    = suspenseSequence[(k % 8) + 1]]_vars

\* C19 witness: a lobby session 4000 ms in has just played its 17th step,
\* step 16, which sounds note 0 of the sequence again (130.81 Hz).
C19_Witness ==
    /\ Session("lobby")
    /\ bgElapsed = 4000
    /\ bgStep = 17
    /\ \E o \in DOMAIN nodes :
          nodes[o] = [kind |-> "pluck", st |-> "playing", at |-> 0, rem |-> 3000, hz |-> 13081]

\* C20: a suspense step (the one startBgMusic plays, or a timer firing) that
\* finds the cursor at k creates, when k is a multiple of 4, a shimmer voice
\* at 4 times the step's frequency and then the drone at the step's
\* frequency, and otherwise the drone alone; the shimmer is never tracked.
C20_ShimmerEveryFourth ==
    [][(\/ SeqStart("suspense")
        \/ \E id \in TimerIds : Session("suspense") /\ BgTimer(id, NoFault))
       => LET k == bgStep' - 1
              freq == suspenseSequence[(k % 8) + 1]
              drone == [kind |-> "drone", st |-> "playing", at |-> 0, rem |-> 4000,
                        hz |-> freq]
              shimmer == [kind |-> "shimmer", st |-> "playing", at |-> 0, rem |-> 4000,
                          hz |-> 4 * freq]
          IN /\ Created = IF k % 4 = 0 THEN <<shimmer, drone>> ELSE <<drone>>
             /\ bgOscillators' = Append(bgOscillators, Len(nodes'))]_vars

\* C20 witness: a suspense session has just played step 4 (55 Hz): its
\* shimmer at 220 Hz and its drone have their full 4 s ahead, and the drone
\* of step 3, played 1500 ms earlier, sounds on without a shimmer.
C20_Witness ==
    /\ Session("suspense")
    /\ bgStep = 5
    /\ \E o \in DOMAIN nodes :
          /\ nodes[o] = [kind |-> "shimmer", st |-> "playing", at |-> 0, rem |-> 4000, hz |-> 22000]
          /\ o + 1 \in DOMAIN nodes
          /\ nodes[o + 1] = [kind |-> "drone", st |-> "playing", at |-> 0, rem |-> 4000, hz |-> 5500]
    /\ \E o \in DOMAIN nodes :
          nodes[o] = [kind |-> "drone", st |-> "playing", at |-> 0, rem |-> 2500, hz |-> 13081]
    /\ \A o \in DOMAIN nodes : nodes[o].kind = "shimmer" => nodes[o].rem = 4000

\* An effect voice as start(t + off), stop(t + off + ms) leaves it in the
\* browser's table at the instant t of the call.
FxNode(off, ms) ==
    [kind |-> "fx", st |-> "playing", at |-> off, rem |-> off + ms, hz |-> 0]

\* The step adds exactly one voice per offset, each of ms milliseconds, all
\* measured from the instant of the call, pushes them in order and leaves
\* the earlier voices alone.
Adds(offs, ms) ==
    /\ Len(nodes') = Len(nodes) + Len(offs)
    /\ SubSeq(nodes', 1, Len(nodes)) = nodes
    /\ Created = [i \in 1..Len(offs) |-> FxNode(offs[i], ms)]
    /\ activeOscillators' =
          activeOscillators \o [i \in 1..Len(offs) |-> Len(nodes) + i]
    /\ bgOscillators' = bgOscillators

\* C21: unmuted and with a working backend, click, wrong, tick, lightBeep,
\* goBurst and falseStart each add exactly 1 voice; correct adds exactly 2,
\* starting 0 and 80 ms after the call; heartbeat exactly 2, at 0 and 150 ms;
\* fanfare exactly 4, at 0, 120, 240 and 360 ms: every voice of a call is
\* timed from the one instant the call read the clock.
C21_EffectVoices ==
    [][/\ Click(NoFault) => Adds(<<0>>, 50)
       /\ Wrong(NoFault) => Adds(<<0>>, 250)
       /\ Tick(NoFault) => Adds(<<0>>, 30)
       /\ LightBeep(NoFault) => Adds(<<0>>, 100)
       /\ GoBurst(NoFault) => Adds(<<0>>, 300)
       /\ FalseStart(NoFault) => Adds(<<0>>, 500)
       /\ Correct(NoFault) => Adds(<<0, 80>>, 120)
       /\ Heartbeat(NoFault) => Adds(<<0, 150>>, 150)
       /\ Fanfare(NoFault) => Adds(<<0, 120, 240, 360>>, 200)]_vars

\* A fanfare was called while an earlier voice was alive: its four voices
\* are the last four tracked, at their offsets from the call.
C21_Witness ==
    /\ ~muted
    /\ Len(nodes) = 5
    /\ Len(activeOscillators) = 5
    /\ nodes[1].rem < 120
    /\ SubSeq(nodes, 2, 5) =
          [i \in 1..4 |-> FxNode(<<0, 120, 240, 360>>[i], 200)]

\* The step is a sound request that gets as far as getCtx(): a call or a
\* heartbeat firing that passes its mute check and its early returns.
Acquires ==
    /\ ~muted
    /\ \/ \E f \in Faults(1) : Click(f)
       \/ heartbeatInterval = NoTimer /\ \E f \in Faults(2) : StartHeartbeatLoop(f)
       \/ \E type \in Modes, f \in Faults(2) :
             /\ ~(bgPlaying /\ currentMusicType = type)
             /\ StartBgMusic(type, f)
       \/ \E id \in TimerIds, f \in Faults(2) : HeartbeatTimer(id, f)

\* C22: the AudioContext is constructed at most once, and only by a sound
\* request that gets as far as synthesis; once it exists it is never dropped
\* or replaced; and every acquire that finds it suspended resumes it.
C22_ContextOnceAndResumed ==
    /\ [](ctxMade <= 1 /\ (ctx = "none" <=> ctxMade = 0))
    /\ [][ctx # "none" => ctx' # "none"]_vars
    /\ [][ctxMade' # ctxMade => Acquires]_vars
    /\ [][Acquires /\ ctx = "suspended" => ctx' = "running"]_vars

\* The browser suspended the one context and the last call resumed it.
C22_Witness ==
    /\ scenario = 8
    /\ ctx = "running"
    /\ ctxMade = 1

\* The table entries of the given kinds, and the timers of the given kinds,
\* are the same in state t as in state s.
SameNodes(s, t, kinds) ==
    \A o \in DOMAIN s.nodes :
        s.nodes[o].kind \in kinds => o \in DOMAIN t.nodes /\ t.nodes[o] = s.nodes[o]
SameTimers(s, t, kinds) ==
    /\ {id \in DOMAIN t.timers : t.timers[id].kind \in kinds}
          = {id \in DOMAIN s.timers : s.timers[id].kind \in kinds}
    /\ \A id \in DOMAIN s.timers :
          s.timers[id].kind \in kinds => t.timers[id] = s.timers[id]

\* The background sequencer's side of the state is the same in t as in s;
\* the heartbeat loop's side is.
BgSideSame(s, t) ==
    /\ t.bgPlaying = s.bgPlaying
    /\ t.currentMusicType = s.currentMusicType
    /\ t.bgStep = s.bgStep
    /\ t.bgInterval = s.bgInterval
    /\ t.bgOscillators = s.bgOscillators
    /\ SameTimers(s, t, Modes)
    /\ SameNodes(s, t, {"pluck", "noise", "drone", "shimmer"})
HbSideSame(s, t) ==
    /\ t.heartbeatInterval = s.heartbeatInterval
    /\ t.activeOscillators = s.activeOscillators
    /\ SameTimers(s, t, {"hb"})
    /\ SameNodes(s, t, {"fx"})

\* C23: called in any reachable state, with or without a fault,
\* startHeartbeatLoop() and stopHeartbeatLoop() never change the background
\* mode, the step cursor, the background timer or the background voices, and
\* startBgMusic() and stopBgMusic() never change the heartbeat timer or the
\* effect voices.
C23_LoopAndMusicIndependent ==
    /\ \A f \in Faults(2) : BgSideSame(Cur, startHeartbeatLoop(Cur, f))
    /\ BgSideSame(Cur, stopHeartbeatLoop(Cur))
    /\ \A type \in Modes, f \in Faults(2) :
          HbSideSame(Cur, startBgMusic(Cur, type, f))
    /\ HbSideSame(Cur, stopBgMusic(Cur))

\* Both triggers are armed at once, each with a voice of its own tracked.
C23_Witness ==
    /\ heartbeatInterval \in HbTimers
    /\ bgInterval \in BgTimers
    /\ bgPlaying
    /\ activeOscillators # <<>>
    /\ bgOscillators # <<>>

\* The step is a navigation away from a game screen: the Back button, or a
\* navbar link, while a game is on the page.
LeavesGame ==
    /\ game.currentGame # "null"
    /\ GoBack \/ \E view \in Views : SwitchView(view)

\* After the step the heartbeat loop is not running and no voice scheduled
\* before it is still tracked (a node the step itself created comes after
\* the earlier ones in the table).
AllStopped ==
    /\ heartbeatInterval' = NoTimer
    /\ HbTimers' = {}
    /\ activeOscillators' = <<>>
    /\ \A o \in Range(bgOscillators') : Abs(o) > Len(nodes)

\* C24 (as claimed): every navigation away from a game screen, by the Back
\* button or by a navbar link to home, about, help or leaderboard, leaves the
\* heartbeat loop stopped and no previously scheduled voice tracked.
C24_NavigationStopsAll == [][LeavesGame => AllStopped]_vars

\* The running countdown is inside its "nearly expired" window.
InWindow ==
    \/ /\ game.countdown = "memory"
       /\ 0 < game.timerSeconds
       /\ game.timerSeconds <= MemoryWindow
    \/ /\ game.countdown = "survival"
       /\ 0 < game.timeLeft
       /\ game.timeLeft <= SurvivalWindow

\* C25 (as claimed): during a game the heartbeat loop runs only while the
\* countdown is inside its window (Room Observer 0 < remaining <= 3 s, Color
\* Confusion survival 0 < remaining <= 5 s): whenever the countdown callback
\* has run, the loop is armed if the countdown is now inside the window and
\* stopped if it is outside, be it at 0 or above the window after a bonus.
C25_LoopOnlyInWindow ==
    [][MemoryTick \/ SurvivalTick
          => (heartbeatInterval' # NoTimer <=> InWindow')]_vars

\* C26: the mute flag changes only in toggleMute(): a step of any other
\* call, callback or event leaves it as it was.
C26_OnlyToggleChangesMute == [][muted' # muted => ToggleMute]_vars

\* The flag has been set, by a toggleMute() call made after sound had been
\* produced.
C26_Witness ==
    /\ muted
    /\ scenario = 1
    /\ ctx = "running"

\* C27: a tracked voice is eventually removed: with the ended events
\* delivered fairly, once the page makes no further call and neither the
\* heartbeat timer nor the background timer is armed, both tracked lists
\* eventually become empty.
C27_TrackedEventuallyEmpty ==
    (~live /\ DOMAIN timers = {})
        ~> (activeOscillators = <<>> /\ bgOscillators = <<>>)

\* The calls have ceased with no timer armed and effect voices still tracked.
C27_Witness ==
    /\ ~live
    /\ DOMAIN timers = {}
    /\ Len(activeOscillators) >= 2

C29_UnmuteOnlyClearsFlag ==
    /\ [](muted => toggleMute(Cur) = [Cur EXCEPT !.muted = FALSE, !.ret = FALSE])
    /\ [][~bgPlaying /\ bgPlaying'
             => \E type \in Modes, f \in Faults(2) : StartBgMusic(type, f)]_vars
    /\ [][heartbeatInterval = NoTimer /\ heartbeatInterval' # NoTimer
             => \E f \in Faults(2) : StartHeartbeatLoop(f)]_vars

\* Muting stopped a session; the flag was then cleared again (the third call
\* of mute, correct, unmute) and the music is still stopped, the end of a
\* voice it cut short still pending.
C29_Witness ==
    /\ scenario = 3
    /\ ~muted
    /\ ~bgPlaying
    /\ bgInterval = NoTimer
    /\ Stopped({"pluck", "drone"}) # {}

\* C30: startBgMusic(mode) called while muted returns the state it was
\* given, for either mode and whatever the backend would have done: the mode
\* flags, both timers, the cursor, both lists and the node table are as they
\* were, and the AudioContext is neither constructed nor resumed.
C30_MutedStartIsNoOp ==
    muted => \A type \in Modes, f \in Faults(2) :
                startBgMusic(Cur, type, f) = Cur

\* startBgMusic() has just been called on a muted engine that has never
\* produced a sound: there is still no context, no session and no timer.
C30_Witness ==
    /\ scenario = 9
    /\ muted
    /\ ctx = "none"
    /\ ctxMade = 0
    /\ ~bgPlaying
    /\ timers = <<>>
    /\ nodes = <<>>

\* C31: with a working backend, in every reachable state the background mode
\* is lobby or suspense if and only if exactly one background timer is armed
\* (the one bgInterval holds), and whenever the mode is idle the background
\* voice list is empty.
C31_ModeIffOneTrigger ==
    /\ bgPlaying <=> currentMusicType \in Modes
    /\ currentMusicType \in Modes <=> Cardinality(BgTimers) = 1
    /\ BgTimers = IF bgPlaying THEN {bgInterval} ELSE {}
    /\ bgPlaying => timers[bgInterval].kind = currentMusicType
    /\ ~bgPlaying => bgInterval = NoTimer
    /\ currentMusicType = "null" => bgOscillators = <<>>

\* A suspense session with its one timer, started over a lobby session whose
\* cut-short string has not delivered its end yet.
C31_Witness ==
    /\ Session("suspense")
    /\ Cardinality(BgTimers) = 1
    /\ Stopped({"pluck"}) # {}
    /\ bgOscillators # <<>>

\* The tracked entries of a list, as the node records they stand for.
TrackedNodes(ns, list) == [i \in DOMAIN list |-> ns[Abs(list[i])]]

\* The step delivers the end of node o and takes nothing but o out of the
\* table and out of the two lists: every other entry is still there, in the
\* same order, and stands for the same node.
OnlyOwn(o) ==
    LET a == SeqFilterOut(activeOscillators, {o})
        b == SeqFilterOut(bgOscillators, {o, -o})
    IN /\ nodes' = RemoveAt(nodes, o)
       /\ Len(activeOscillators') = Len(a)
       /\ Len(bgOscillators') = Len(b)
       /\ TrackedNodes(nodes', activeOscillators') = TrackedNodes(nodes, a)
       /\ TrackedNodes(nodes', bgOscillators') = TrackedNodes(nodes, b)
       /\ Late(o) => /\ a = activeOscillators
                     /\ b = bgOscillators

\* Every tracked entry is a sounding node with a handler, listed once, and
\* every sounding node with a handler is tracked.
TrackedAreLive ==
    /\ \A i \in DOMAIN activeOscillators :
          /\ activeOscillators[i] \in Sounding({"fx"})
          /\ \A j \in DOMAIN activeOscillators :
                activeOscillators[j] = activeOscillators[i] => j = i
    /\ \A i \in DOMAIN bgOscillators :
          /\ Abs(bgOscillators[i]) \in Sounding({"pluck", "drone"})
          /\ \A j \in DOMAIN bgOscillators :
                bgOscillators[j] = bgOscillators[i] => j = i
    /\ Sounding({"fx"}) \subseteq Range(activeOscillators)
    /\ Sounding({"pluck", "drone"}) \subseteq Range(bgOscillators)

\* C32: an ended event, however late it arrives, removes no voice but its
\* own: the end of a node that stopAll() or stopBgMusic() stopped, delivered
\* after newer voices have been created, leaves both lists exactly as they
\* were; so in every reachable state the tracked voices are the sounding
\* ones, each listed once.
C32_LateEndsHarmless ==
    /\ []TrackedAreLive
    /\ [][\A o \in NodeIds :
            Len(nodes') < Len(nodes) /\ OnEnded(o) => OnlyOwn(o)]_vars

\* The end of a force-stopped node has been delivered with newer voices
\* tracked in both lists, and they are all still tracked and sounding.
C32_Witness ==
    /\ scenario = 10
    /\ activeOscillators # <<>>
    /\ bgOscillators # <<>>
    /\ TrackedAreLive

\* The engine's closure variables as the IIFE sets them up, over the browser
\* state (context, node table, timers) of s.
Fresh(s) ==
    [s EXCEPT !.muted = FALSE,
              !.activeOscillators = <<>>,
              !.bgOscillators = <<>>,
              !.bgPlaying = FALSE,
              !.heartbeatInterval = NoTimer,
              !.bgInterval = NoTimer,
              !.bgStep = 0,
              !.currentMusicType = "null"]

\* The methods of the engine and the two callbacks it hands to setInterval.
Calls ==
    {"click", "wrong", "tick", "lightBeep", "goBurst", "falseStart",
     "correct", "heartbeat", "fanfare", "startHeartbeatLoop",
     "stopHeartbeatLoop", "startBgMusic(lobby)", "startBgMusic(suspense)",
     "stopBgMusic", "stopAll", "toggleMute", "playNote(lobby)",
     "playNote(suspense)"}

\* What the call op makes of the state s under the fault f.
Call(s, op, f) ==
    CASE op = "click" -> osc(s, f, 50)
      [] op = "wrong" -> osc(s, f, 250)
      [] op = "tick" -> osc(s, f, 30)
      [] op = "lightBeep" -> osc(s, f, 100)
      [] op = "goBurst" -> osc(s, f, 300)
      [] op = "falseStart" -> osc(s, f, 500)
      [] op = "correct" -> correct(s, f)
      [] op = "heartbeat" -> heartbeat(s, f)
      [] op = "fanfare" -> fanfare(s, f)
      [] op = "startHeartbeatLoop" -> startHeartbeatLoop(s, f)
      [] op = "stopHeartbeatLoop" -> stopHeartbeatLoop(s)
      [] op = "startBgMusic(lobby)" -> startBgMusic(s, "lobby", f)
      [] op = "startBgMusic(suspense)" -> startBgMusic(s, "suspense", f)
      [] op = "stopBgMusic" -> stopBgMusic(s)
      [] op = "stopAll" -> stopAll(s)
      [] op = "toggleMute" -> toggleMute(s)
      [] op = "playNote(lobby)" -> playNote(s, "lobby", f)
      [] op = "playNote(suspense)" -> playNote(s, "suspense", f)

\* Two engine states no caller can tell apart: everything is equal, the
\* created voices, the lists, the timers, the flags and the results
\* included, except the step cursor of an engine with no session, which
\* nothing reads.
SameEngine(s, t) ==
    /\ [s EXCEPT !.bgStep = 0] = [t EXCEPT !.bgStep = 0]
    /\ s.bgPlaying => s.bgStep = t.bgStep

\* C33: the state stopAll() leaves in an unmuted engine has the closure
\* variables of a freshly initialised engine (the context apart), no timer
\* armed and no tracked voice still sounding, and differs only by the step
\* cursor the stopped session left; and whenever no session is playing, any
\* call or timer callback produces the same voices, lists, timers, session
\* and step index whatever the left-over cursor is, so that the same
\* sequence of operations keeps the two engines the same.
C33_StopAllIsFresh ==
    /\ ~muted =>
          LET a == stopAll(Cur) IN
          /\ SameEngine(a, Fresh(a))
          /\ DOMAIN a.timers = {}
          /\ \A o \in DOMAIN a.nodes :
                a.nodes[o].kind \in {"fx", "pluck", "drone"}
                    => a.nodes[o].st = "stopped"
    /\ ~bgPlaying =>
          \A op \in Calls :
             LET c == Call(Cur, op, NoFault) IN
             \A k \in 0..StepCap :
                SameEngine(c, Call([Cur EXCEPT !.bgStep = k], op, NoFault))

\* stopAll() has just emptied an unmuted engine: voices of both lists that
\* it stopped still have their end pending, nothing is tracked or armed,
\* and the stopped session has left its cursor two or more steps on.
C33_Witness ==
    /\ ~muted
    /\ Quiet
    /\ bgStep >= 2
    /\ Stopped({"fx"}) # {}
    /\ Stopped({"pluck", "drone"}) # {}

\* C34: in a clocked run with a working backend, where every step fires on
\* its 250 ms or 1500 ms instant and every ended event is delivered at the
\* instant its voice stops (before or after a step that falls on the same
\* instant), bgOscillators never holds more than 26 entries while the mode
\* is lobby and never more than 4 while it is suspense.
C34_TrackedBgBounded ==
    /\ currentMusicType = "lobby" => Len(bgOscillators) <= 26
    /\ currentMusicType = "suspense" => Len(bgOscillators) <= 4

\* A lobby session 3000 ms in: the 13th step has fired on the instant the
\* first string pair stops and before its ended event, so that 13 pairs,
\* 26 entries, are tracked.
C34_Witness ==
    /\ Session("lobby")
    /\ bgElapsed = 3000
    /\ bgStep = 13
    /\ Len(bgOscillators) = 26

====
